---- MODULE Spec2Model ----
(***************************************************************************)
(* Model of the obfuscation benchmark (benchmark.py): the statistics       *)
(* aggregator and performance sampler (measure_performance), the           *)
(* dependency resolver and obfuscation driver (detect_dependencies,        *)
(* apply_obfuscation) and the run orchestration (main, check_environment,  *)
(* install_tools, run_benchmark).                                          *)
(*                                                                         *)
(* Six specifications share one set of variables:                          *)
(*   SpecMeasure    one call of measure_performance                        *)
(*   SpecObf        calls of apply_obfuscation on one artifact             *)
(*   SpecTrial      the tool loop of run_benchmark on one artifact         *)
(*   SpecBenchmark  the same loop followed by save_results                 *)
(*   SpecCalls      the registry-writing operations in any order           *)
(*   Spec           one run of main                                        *)
(* Numbers are modelled exactly: a sample is a natural number, a mean, a   *)
(* median or a variance is a rational <<numerator, denominator>>.          *)
(***************************************************************************)
EXTENDS Integers, Sequences, FiniteSets, TLC

(* ------------------------------ bounds -------------------------------- *)
MaxIterations == 2      \* largest --iterations value explored

MaxImports == 2         \* import statements in the artifact and its siblings
MaxCalls == 2           \* calls of apply_obfuscation on the artifact
MaxTestFiles == 1       \* test artifacts named on the command line
MaxDisabled == 1        \* tools named in --disable-tools
MaxFaults == 2          \* failing steps explored in one pass of the tool loop
MaxRunFaults == 1       \* failing probes, installs, trials and reports in one run

\* frames of detect_dependencies the interpreter allows before it raises
\* RecursionError: more than the longest chain of the modelled files needs
RecursionLimit == MaxImports + 1

\* the values a sample can take (in units of the metric)
SampleValues == {0, 1}

None == "None"

(* ------------------------- statistics aggregator ---------------------- *)
METRICS == {"execution_time", "memory_usage", "code_size", "startup_time"}

RECURSIVE SeqSum(_)
SeqSum(s) == IF s = <<>> THEN 0 ELSE Head(s) + SeqSum(Tail(s))

RECURSIVE SeqSumSq(_)
SeqSumSq(s) == IF s = <<>> THEN 0 ELSE Head(s) * Head(s) + SeqSumSq(Tail(s))

RECURSIVE SeqMin(_)
SeqMin(s) ==
    IF Len(s) = 1 THEN Head(s)
    ELSE LET m == SeqMin(Tail(s)) IN IF Head(s) <= m THEN Head(s) ELSE m

RECURSIVE SeqMax(_)
SeqMax(s) ==
    IF Len(s) = 1 THEN Head(s)
    ELSE LET m == SeqMax(Tail(s)) IN IF Head(s) >= m THEN Head(s) ELSE m

RECURSIVE Insert(_, _)
Insert(x, s) ==
    IF s = <<>> THEN <<x>>
    ELSE IF x <= Head(s) THEN <<x>> \o s
    ELSE <<Head(s)>> \o Insert(x, Tail(s))

RECURSIVE Sorted(_)
Sorted(s) == IF s = <<>> THEN <<>> ELSE Insert(Head(s), Sorted(Tail(s)))

\* rationals <<n, d>> with d > 0
Rat(n, d) == <<n, d>>
RatEq(a, b) == a[1] * b[2] = b[1] * a[2]
RatLe(a, b) == a[1] * b[2] <= b[1] * a[2]
Zero == Rat(0, 1)

\* statistics.mean: the exact sum divided by the number of samples
MeanOffByOne(data) == Rat(SeqSum(data), Len(data) + 1)
Mean(data) == Rat(SeqSum(data), Len(data))

\* statistics.median: the middle of the sorted data, or the average of the
\* two middle values when the length is even
Median(data) ==
    LET s == Sorted(data)
        n == Len(s)
    IN  IF n % 2 = 1 THEN Rat(s[(n \div 2) + 1], 1)
        ELSE Rat(s[n \div 2] + s[(n \div 2) + 1], 2)

\* statistics.stdev is the square root of the sample variance
\* (n*sum(x^2) - sum(x)^2) / (n*(n-1)); the model carries the variance,
\* which is zero exactly when the standard deviation is.
Variance(data) ==
    LET n == Len(data)
    IN  Rat(n * SeqSumSq(data) - SeqSum(data) * SeqSum(data), n * (n - 1))

ZeroSummary ==
    [mean |-> Zero, median |-> Zero, min |-> Zero, max |-> Zero, stdev |-> Zero]

\* the per-metric reduction at the end of measure_performance
SummaryStdevAlways(data) ==
    IF data # <<>>
    THEN [mean   |-> Mean(data),
          median |-> Median(data),
          min    |-> Rat(SeqMin(data), 1),
          max    |-> Rat(SeqMax(data), 1),
          stdev  |-> Rat(1, 1)]
    ELSE ZeroSummary
SummaryEmptyAsMissing(data) ==
    IF data # <<>>
    THEN [mean   |-> Mean(data),
          median |-> Median(data),
          min    |-> Rat(SeqMin(data), 1),
          max    |-> Rat(SeqMax(data), 1),
          stdev  |-> IF Len(data) > 1 THEN Variance(data) ELSE Zero]
    ELSE [mean |-> Rat(0 - 1, 1), median |-> Zero, min |-> Zero,
          max |-> Zero, stdev |-> Zero]
Summary(data) ==
    IF data # <<>>
    THEN [mean   |-> Mean(data),
          median |-> Median(data),
          min    |-> Rat(SeqMin(data), 1),
          max    |-> Rat(SeqMax(data), 1),
          stdev  |-> IF Len(data) > 1 THEN Variance(data) ELSE Zero]
    ELSE ZeroSummary

(* ------------------------------ state --------------------------------- *)
VARIABLES
    \* measure_performance
    obfuscated_file,    \* the argument: None, "missing" or "present"
    iterations,         \* self.iterations
    file_size,          \* os.path.getsize(obfuscated_file) / 1024
    resources,          \* resource files next to test_files[0]
    staged,             \* resource files copied into temp_dir
    metrics,            \* metric name -> list of samples
    iter,               \* iterations attempted so far
    mpc,                \* position in measure_performance
    memory_usage,       \* the local peak of the polling loop
    proc,               \* the child: "none", "running", "blocked", "exited"
    cwd,                \* process working directory: "orig" or "temp"
    current_dir,        \* the directory saved by the iteration
    mresult,            \* the value returned: Pending, ReturnedNone or Returned(..)
    returncode,         \* process.returncode: "None", "0" or "1"
    raised,             \* iterations that ended in the handler of line 804
    \* detect_dependencies and apply_obfuscation
    fs,                 \* file system: path -> content of the existing files
    tool_name,          \* the tool of the current apply_obfuscation call
    apc,                \* position in apply_obfuscation
    stack,              \* frames of detect_dependencies, innermost last
    dependencies,       \* the list detect_dependencies returned to the driver
    to_copy,            \* dependencies the identity tool has still to copy
    output,             \* the value apply_obfuscation returned
    calls,              \* calls of apply_obfuscation started
    history,            \* the dependency sets of the calls that have ended
    overflowed,         \* a call failed with RecursionError
    \* main and run_benchmark
    test_files,         \* args.test_files: a list of [path, isfile]
    disable_tools,      \* args.disable_tools
    python_version,     \* sys.version_info: <<major, minor>>
    TOOLS,              \* the tool registry: name -> [enabled, command, output]
    results,            \* self.results: path -> tool -> metric summaries
    pc,                 \* position in main
    file_idx,           \* index of the test file of the trial loop
    tool_idx,           \* index of the tool of the install or trial loop
    temp_dir,           \* the workspace: "none", "created", "deleted", "undeletable"
    written,            \* benchmark_results.json has been written
    exit_status,        \* "running", then the exit status "0" or "1"
    faults,             \* failures the environment has produced so far
    probe_failed,       \* tools whose probe in check_environment failed
    \* one trial of run_benchmark's loop
    events              \* what has happened in the current trial

mvars == <<obfuscated_file, iterations, file_size, resources, staged, metrics,
           iter, mpc, memory_usage, proc, cwd, current_dir, mresult,
           returncode, raised>>

ovars == <<fs, tool_name, apc, stack, dependencies, to_copy, output, calls,
           history, overflowed>>

rvars == <<test_files, disable_tools, python_version, TOOLS, results, pc,
           file_idx, tool_idx, temp_dir, written, exit_status, faults,
           probe_failed>>

tvars == <<events>>

(* -------------------------- performance sampler ----------------------- *)
DLIB_DIR == "dlib_shape_predictor"
DAT_FILE == "dlib_shape_predictor/shape_predictor_68_face_landmarks.dat"
VIDEO_FILE == "video.mp4"

\* the resource layouts explored next to the first test file: none, an
\* empty dlib directory, and the directory with its .dat file and the video
ResourceLayouts == {{}, {DLIB_DIR}, {DLIB_DIR, DAT_FILE, VIDEO_FILE}}

\* what a call has returned so far
Pending == [kind |-> "pending"]
ReturnedNone == [kind |-> "None"]
Returned(v) == [kind |-> "value", value |-> v]

Append1(m, v) == [metrics EXCEPT ![m] = Append(@, v)]

\* line 770: memory_usage is a local name that has no value before the
\* first assignment
UNBOUND == -1

MeasureInit ==
    /\ obfuscated_file \in {None, "missing", "present"}
    /\ iterations \in 0..MaxIterations
    /\ file_size \in SampleValues
    /\ resources \in ResourceLayouts
    /\ staged = {}
    /\ metrics = [m \in METRICS |-> <<>>]
    /\ iter = 0
    /\ mpc = "entry"
    /\ memory_usage = UNBOUND
    /\ proc = "none"
    /\ cwd = "orig"
    /\ current_dir = "orig"
    /\ mresult = Pending
    /\ returncode = "None"
    /\ raised = 0

\* lines 720-722: a null or missing path returns None at once
MeasureReject ==
    /\ mpc = "entry"
    /\ obfuscated_file \in {None, "missing"}
    /\ mresult' = ReturnedNone
    /\ mpc' = "done"
    /\ UNCHANGED <<obfuscated_file, iterations, file_size, resources, staged,
                   metrics, iter, memory_usage, proc, cwd, current_dir>>
    /\ UNCHANGED <<returncode, raised>>
    /\ UNCHANGED <<ovars, rvars, tvars>>

\* lines 724-746: the metric lists are created and the resources are copied
StageResourcesUnchecked ==
    /\ mpc = "entry"
    /\ staged' = resources
    /\ metrics' = [m \in METRICS |-> <<>>]
    /\ mpc' = "loop"
    /\ UNCHANGED <<obfuscated_file, iterations, file_size, resources, iter,
                   memory_usage, proc, cwd, current_dir, mresult>>
    /\ UNCHANGED <<returncode, raised>>
    /\ UNCHANGED <<ovars, rvars, tvars>>
StageResources ==
    /\ mpc = "entry"
    /\ obfuscated_file = "present"
    /\ staged' = resources
    /\ metrics' = [m \in METRICS |-> <<>>]
    /\ mpc' = "loop"
    /\ UNCHANGED <<obfuscated_file, iterations, file_size, resources, iter,
                   memory_usage, proc, cwd, current_dir, mresult>>
    /\ UNCHANGED <<returncode, raised>>
    /\ UNCHANGED <<ovars, rvars, tvars>>

\* lines 749-757: the next iteration saves the working directory and
\* switches to the temporary workspace
IterStart ==
    /\ mpc = "loop"
    /\ iter < iterations
    /\ iter' = iter + 1
    /\ current_dir' = cwd
    /\ cwd' = "temp"
    /\ mpc' = "popen"
    /\ UNCHANGED <<obfuscated_file, iterations, file_size, resources, staged,
                   metrics, memory_usage, proc, mresult>>
    /\ UNCHANGED <<returncode, raised>>
    /\ UNCHANGED <<ovars, rvars, tvars>>

\* lines 759-765: the launch succeeds and the startup time is appended
PopenOkSampleLater ==
    /\ mpc = "popen"
    /\ proc' = "running"
    /\ returncode' = "None"
    /\ mpc' = "attach"
    /\ UNCHANGED <<obfuscated_file, iterations, file_size, resources, staged,
                   metrics, iter, memory_usage, cwd, current_dir, mresult>>
    /\ UNCHANGED raised
    /\ UNCHANGED <<ovars, rvars, tvars>>
PopenOk ==
    /\ mpc = "popen"
    /\ \E v \in SampleValues : metrics' = Append1("startup_time", v)
    /\ proc' = "running"
    /\ returncode' = "None"
    /\ mpc' = "attach"
    /\ UNCHANGED <<obfuscated_file, iterations, file_size, resources, staged,
                   iter, memory_usage, cwd, current_dir, mresult>>
    /\ UNCHANGED raised
    /\ UNCHANGED <<ovars, rvars, tvars>>

\* lines 759-762, 804-805: the launch raises; the handler of the iteration
\* logs the error and the loop goes on
PopenFails ==
    /\ mpc = "popen"
    /\ proc' = "none"
    /\ raised' = raised + 1
    /\ mpc' = "loop"
    /\ UNCHANGED <<obfuscated_file, iterations, file_size, resources, staged,
                   metrics, iter, memory_usage, cwd, current_dir, mresult>>
    /\ UNCHANGED returncode
    /\ UNCHANGED <<ovars, rvars, tvars>>

\* lines 769-770: psutil attaches to the child
AttachOk ==
    /\ mpc = "attach"
    /\ memory_usage' = 0
    /\ mpc' = "poll"
    /\ UNCHANGED <<obfuscated_file, iterations, file_size, resources, staged,
                   metrics, iter, proc, cwd, current_dir, mresult>>
    /\ UNCHANGED <<returncode, raised>>
    /\ UNCHANGED <<ovars, rvars, tvars>>

\* lines 769, 782-783: psutil.Process raises NoSuchProcess or AccessDenied;
\* a warning is logged and no memory sample is appended
AttachFails ==
    /\ mpc = "attach"
    /\ mpc' = "communicate"
    /\ UNCHANGED <<obfuscated_file, iterations, file_size, resources, staged,
                   metrics, iter, memory_usage, proc, cwd, current_dir,
                   mresult>>
    /\ UNCHANGED <<returncode, raised>>
    /\ UNCHANGED <<ovars, rvars, tvars>>

\* lines 773-777: the child is alive and its resident memory is read
PollSample ==
    /\ mpc = "poll"
    /\ proc \in {"running", "blocked"}
    /\ \E v \in SampleValues :
          memory_usage' = IF v > memory_usage THEN v ELSE memory_usage
    /\ UNCHANGED <<obfuscated_file, iterations, file_size, resources, staged,
                   metrics, iter, mpc, proc, cwd, current_dir, mresult>>
    /\ UNCHANGED <<returncode, raised>>
    /\ UNCHANGED <<ovars, rvars, tvars>>

\* lines 773, 781: process.poll() reports that the child has exited; the
\* loop ends and the peak is appended
PollEnd ==
    /\ mpc = "poll"
    /\ proc = "exited"
    /\ metrics' = Append1("memory_usage", memory_usage)
    /\ mpc' = "communicate"
    /\ UNCHANGED <<obfuscated_file, iterations, file_size, resources, staged,
                   iter, memory_usage, proc, cwd, current_dir, mresult>>
    /\ UNCHANGED <<returncode, raised>>
    /\ UNCHANGED <<ovars, rvars, tvars>>

\* lines 778-781: memory_info raises NoSuchProcess or AccessDenied; the
\* loop is left by break and the peak is appended
PollBreak ==
    /\ mpc = "poll"
    /\ proc \in {"running", "blocked"}
    /\ metrics' = Append1("memory_usage", memory_usage)
    /\ mpc' = "communicate"
    /\ UNCHANGED <<obfuscated_file, iterations, file_size, resources, staged,
                   iter, memory_usage, proc, cwd, current_dir, mresult>>
    /\ UNCHANGED <<returncode, raised>>
    /\ UNCHANGED <<ovars, rvars, tvars>>

\* lines 760-762: the child writes to stdout or stderr, which are pipes
\* nobody reads before line 786: once a pipe is full the write blocks
ChildBlocks ==
    /\ proc = "running"
    /\ proc' = "blocked"
    /\ UNCHANGED <<obfuscated_file, iterations, file_size, resources, staged,
                   metrics, iter, mpc, memory_usage, cwd, current_dir,
                   mresult>>
    /\ UNCHANGED <<returncode, raised>>
    /\ UNCHANGED <<ovars, rvars, tvars>>

\* the child process terminates on its own
ChildExit ==
    /\ proc = "running"
    /\ proc' = "exited"
    /\ UNCHANGED <<obfuscated_file, iterations, file_size, resources, staged,
                   metrics, iter, mpc, memory_usage, cwd, current_dir,
                   mresult>>
    /\ UNCHANGED <<returncode, raised>>
    /\ UNCHANGED <<ovars, rvars, tvars>>

\* line 786: communicate reads the pipes while it waits, which lets a
\* blocked child go on
CommunicateRead ==
    /\ mpc = "communicate"
    /\ proc = "blocked"
    /\ proc' = "running"
    /\ UNCHANGED <<obfuscated_file, iterations, file_size, resources, staged,
                   metrics, iter, mpc, memory_usage, cwd, current_dir,
                   mresult>>
    /\ UNCHANGED <<returncode, raised>>
    /\ UNCHANGED <<ovars, rvars, tvars>>

\* lines 786-791: communicate returns once the child has exited and stores
\* its exit code, zero or not; the execution time is appended and the
\* working directory is restored
Communicate ==
    /\ mpc = "communicate"
    /\ proc = "exited"
    /\ \E v \in SampleValues : metrics' = Append1("execution_time", v)
    /\ returncode' \in {"0", "1"}
    /\ cwd' = current_dir
    /\ mpc' = "getsize"
    /\ UNCHANGED <<obfuscated_file, iterations, file_size, resources, staged,
                   iter, memory_usage, proc, current_dir, mresult>>
    /\ UNCHANGED raised
    /\ UNCHANGED <<ovars, rvars, tvars>>

\* lines 786, 804-805: waiting on the child raises; the handler of the
\* iteration logs the error and lines 787-803 are skipped
CommunicateFails ==
    /\ mpc = "communicate"
    /\ proc' = "none"
    /\ raised' = raised + 1
    /\ mpc' = "loop"
    /\ UNCHANGED <<obfuscated_file, iterations, file_size, resources, staged,
                   metrics, iter, memory_usage, cwd, current_dir, mresult,
                   returncode>>
    /\ UNCHANGED <<ovars, rvars, tvars>>

\* lines 794-805: the exit code is only logged; the code size is appended;
\* the closing log line formats memory_usage and raises UnboundLocalError
\* when no iteration has assigned it yet
GetSizeOkDiscardOnError ==
    /\ mpc = "getsize"
    /\ metrics' = IF returncode = "0"
                  THEN Append1("code_size", file_size)
                  ELSE [metrics EXCEPT
                           !["startup_time"] = SubSeq(@, 1, Len(@) - 1),
                           !["execution_time"] = SubSeq(@, 1, Len(@) - 1)]
    /\ raised' = IF memory_usage = UNBOUND THEN raised + 1 ELSE raised
    /\ proc' = "none"
    /\ mpc' = "loop"
    /\ UNCHANGED <<obfuscated_file, iterations, file_size, resources, staged,
                   iter, memory_usage, cwd, current_dir, mresult>>
    /\ UNCHANGED returncode
    /\ UNCHANGED <<ovars, rvars, tvars>>
GetSizeOk ==
    /\ mpc = "getsize"
    /\ metrics' = Append1("code_size", file_size)
    /\ raised' = IF memory_usage = UNBOUND THEN raised + 1 ELSE raised
    /\ proc' = "none"
    /\ mpc' = "loop"
    /\ UNCHANGED <<obfuscated_file, iterations, file_size, resources, staged,
                   iter, memory_usage, cwd, current_dir, mresult>>
    /\ UNCHANGED returncode
    /\ UNCHANGED <<ovars, rvars, tvars>>

\* lines 800, 804-805: os.path.getsize raises (the artifact is gone)
GetSizeFails ==
    /\ mpc = "getsize"
    /\ proc' = "none"
    /\ raised' = raised + 1
    /\ mpc' = "loop"
    /\ UNCHANGED <<obfuscated_file, iterations, file_size, resources, staged,
                   metrics, iter, memory_usage, cwd, current_dir, mresult>>
    /\ UNCHANGED returncode
    /\ UNCHANGED <<ovars, rvars, tvars>>

\* lines 807-821: every metric is reduced to its summary
ComputeStats ==
    /\ mpc = "loop"
    /\ iter >= iterations
    /\ mresult' = Returned([m \in METRICS |-> Summary(metrics[m])])
    /\ mpc' = "done"
    /\ UNCHANGED <<obfuscated_file, iterations, file_size, resources, staged,
                   metrics, iter, memory_usage, proc, cwd, current_dir>>
    /\ UNCHANGED <<returncode, raised>>
    /\ UNCHANGED <<ovars, rvars, tvars>>

MeasureNext ==
    \/ MeasureReject
    \/ StageResources
    \/ IterStart
    \/ PopenOk
    \/ PopenFails
    \/ AttachOk
    \/ AttachFails
    \/ PollSample
    \/ PollEnd
    \/ PollBreak
    \/ ChildBlocks
    \/ ChildExit
    \/ CommunicateRead
    \/ Communicate
    \/ CommunicateFails
    \/ GetSizeOk
    \/ GetSizeFails
    \/ ComputeStats

(* ------------------------- dependency resolver ------------------------ *)
\* lines 204-207: the names the resolver never treats as local files
EXCLUDED_MODULES ==
    {"os", "sys", "time", "math", "numpy", "cv2", "dlib", "imutils", "scipy",
     "argparse", "subprocess", "importlib", "psutil", "json", "statistics",
     "matplotlib", "logging", "tempfile", "shutil", "platform", "re",
     "distutils", "shlex"}

\* a standard-library module the test programs import and the list lacks
UNLISTED_STANDARD_MODULE == "random"

STANDARD_MODULES == EXCLUDED_MODULES \cup {UNLISTED_STANDARD_MODULE}

\* the module names that occur in the modelled programs
LocalStems == {"a", "b", "a_original"}
Modules == LocalStems \cup {"os", UNLISTED_STANDARD_MODULE}

SRC_DIR == "src"
TEMP_DIR == "tmp"

Path(d, n) == [dir |-> d, name |-> n]
PyFile(d, stem) == Path(d, stem \o ".py")

\* Path(p).stem of a modelled file
StemOf(p) == CHOOSE m \in Modules : m \o ".py" = p.name

\* the artifact under test
TEST_FILE == PyFile(SRC_DIR, "a")

\* the import statements of a program text
ImportStmts == [kind : {"import"}, mod : Modules, name : {""}]
FromStmts ==
    {[kind |-> "from", mod |-> "os", name |-> "b"],
     [kind |-> "from", mod |-> "b", name |-> "os"]}
Statements == ImportStmts \cup FromStmts

Programs(n) == {p \in SUBSET Statements : Cardinality(p) <= n}

Absent == [absent |-> TRUE]
Content(stmts, body) == [stmts |-> stmts, body |-> body]

\* lines 195-200: the two regular expressions.  'from\s+([^\s.]+)\s+import'
\* yields the X of "from X import Y"; 'import\s+([^\s.,]+)' yields the X of
\* "import X" and also the Y of "from X import Y".
FromImports(content) == {st.mod : st \in {x \in content.stmts : x.kind = "from"}}
DirectImports(content) ==
    {st.mod : st \in {x \in content.stmts : x.kind = "import"}}
        \cup {st.name : st \in {x \in content.stmts : x.kind = "from"}}
PotentialModules(content) == FromImports(content) \cup DirectImports(content)

\* line 209: the sibling file a module name would be
ModuleFile(file, module) == PyFile(file.dir, module)

\* lines 204-210: the module is kept when it is not in the list and a
\* same-named file exists next to the scanned file
IsLocalDependencyNoFilter(file, module) ==
    ModuleFile(file, module) \in DOMAIN fs
IsLocalDependencySeenOnce(file, module) ==
    /\ module \notin EXCLUDED_MODULES
    /\ ModuleFile(file, module) \in DOMAIN fs
    /\ \A i \in 1..Len(history) : ModuleFile(file, module) \notin history[i]
IsLocalDependency(file, module) ==
    /\ module \notin EXCLUDED_MODULES
    /\ ModuleFile(file, module) \in DOMAIN fs

Range(s) == {s[i] : i \in 1..Len(s)}

\* line 218: list(set(dependencies)); the order Python gives the list is a
\* function of the set, here the one CHOOSE fixes
SetToSeq(S) ==
    CHOOSE s \in [1..Cardinality(S) -> S] : {s[i] : i \in 1..Cardinality(S)} = S
RemoveDuplicates(deps) == SetToSeq(Range(deps))

Frame(file) ==
    [file |-> file, pending |-> PotentialModules(fs[file]), dependencies |-> <<>>]

Top == stack[Len(stack)]

\* the stack after the innermost call has returned ret: the caller extends
\* its own list (line 216)
Popped(ret) ==
    IF Len(stack) = 1 THEN <<>>
    ELSE [SubSeq(stack, 1, Len(stack) - 1) EXCEPT ![Len(stack) - 1].dependencies
              = @ \o ret]

\* the outermost call hands its list to apply_obfuscation (line 506)
Delivered(ret) ==
    /\ stack' = Popped(ret)
    /\ IF Len(stack) = 1
       THEN /\ dependencies' = ret
            /\ history' = Append(history, Range(ret))
            /\ to_copy' = ret
            /\ apc' = "copy_main"
       ELSE UNCHANGED <<dependencies, history, to_copy, apc>>

\* line 506: apply_obfuscation starts by resolving the dependencies of its
\* input; lines 182-200 of the outermost call
ApplyObfuscation ==
    /\ apc = "idle"
    /\ calls < MaxCalls
    /\ calls' = calls + 1
    /\ tool_name' = "original"
    /\ stack' = <<Frame(TEST_FILE)>>
    /\ output' = Pending
    /\ apc' = "detect"
    /\ UNCHANGED <<fs, dependencies, to_copy, history, overflowed>>
    /\ UNCHANGED <<mvars, rvars, tvars>>

\* lines 203-210: a module name that is listed, or has no sibling file
DetectSkip ==
    /\ apc = "detect"
    /\ \E m \in Top.pending :
          /\ ~IsLocalDependency(Top.file, m)
          /\ stack' = [stack EXCEPT ![Len(stack)].pending = @ \ {m}]
    /\ UNCHANGED <<fs, tool_name, apc, dependencies, to_copy, output, calls,
                   history, overflowed>>
    /\ UNCHANGED <<mvars, rvars, tvars>>

\* lines 211-215: the sibling file is appended and resolved recursively
DetectRecurseDirectOnly ==
    /\ apc = "detect"
    /\ Len(stack) < RecursionLimit
    /\ \E m \in Top.pending :
          /\ IsLocalDependency(Top.file, m)
          /\ stack' = [stack EXCEPT
                 ![Len(stack)].pending = @ \ {m},
                 ![Len(stack)].dependencies = Append(@, ModuleFile(Top.file, m))]
    /\ UNCHANGED <<fs, tool_name, apc, dependencies, to_copy, output, calls,
                   history, overflowed>>
    /\ UNCHANGED <<mvars, rvars, tvars>>
DetectRecurse ==
    /\ apc = "detect"
    /\ Len(stack) < RecursionLimit
    /\ \E m \in Top.pending :
          /\ IsLocalDependency(Top.file, m)
          /\ stack' = Append(
                 [stack EXCEPT
                     ![Len(stack)].pending = @ \ {m},
                     ![Len(stack)].dependencies =
                         Append(@, ModuleFile(Top.file, m))],
                 Frame(ModuleFile(Top.file, m)))
    /\ UNCHANGED <<fs, tool_name, apc, dependencies, to_copy, output, calls,
                   history, overflowed>>
    /\ UNCHANGED <<mvars, rvars, tvars>>

\* lines 215, 219-221: the interpreter refuses one more frame; the
\* RecursionError is caught by the handler of the calling frame, which logs
\* it and returns an empty list
DetectRecursionError ==
    /\ apc = "detect"
    /\ Len(stack) = RecursionLimit
    /\ \E m \in Top.pending : IsLocalDependency(Top.file, m)
    /\ overflowed' = TRUE
    /\ Delivered(<<>>)
    /\ UNCHANGED <<fs, tool_name, output, calls>>
    /\ UNCHANGED <<mvars, rvars, tvars>>

\* line 218: every module name has been looked at
DetectReturn ==
    /\ apc = "detect"
    /\ Top.pending = {}
    /\ Delivered(RemoveDuplicates(Top.dependencies))
    /\ UNCHANGED <<fs, tool_name, output, calls, overflowed>>
    /\ UNCHANGED <<mvars, rvars, tvars>>

(* -------------------------- obfuscation driver ------------------------ *)
\* line 512: temp_dir / f"{stem}_original{suffix}"
OriginalOutputPath(input_file) ==
    Path(TEMP_DIR, StemOf(input_file) \o "_original" \o ".py")

\* line 518: temp_dir / dep_path.name
DepOutputPath(dep) == Path(TEMP_DIR, dep.name)

\* shutil.copy2(src, dst)
Copy2(src, dst) ==
    [p \in DOMAIN fs \cup {dst} |-> IF p = dst THEN fs[src] ELSE fs[p]]

\* lines 511-513: the identity tool copies the artifact
CopyMain ==
    /\ apc = "copy_main"
    /\ tool_name = "original"
    /\ fs' = Copy2(TEST_FILE, OriginalOutputPath(TEST_FILE))
    /\ apc' = "copy_deps"
    /\ UNCHANGED <<tool_name, stack, dependencies, to_copy, output, calls,
                   history, overflowed>>
    /\ UNCHANGED <<mvars, rvars, tvars>>

\* lines 516-519: and then each dependency, under its own name
CopyDep ==
    /\ apc = "copy_deps"
    /\ to_copy # <<>>
    /\ fs' = Copy2(Head(to_copy), DepOutputPath(Head(to_copy)))
    /\ to_copy' = Tail(to_copy)
    /\ UNCHANGED <<tool_name, apc, stack, dependencies, output, calls,
                   history, overflowed>>
    /\ UNCHANGED <<mvars, rvars, tvars>>

\* line 521: return str(output_path)
ReturnOriginal ==
    /\ apc = "copy_deps"
    /\ to_copy = <<>>
    /\ output' = Returned(OriginalOutputPath(TEST_FILE))
    /\ apc' = "idle"
    /\ UNCHANGED <<fs, tool_name, stack, dependencies, to_copy, calls,
                   history, overflowed>>
    /\ UNCHANGED <<mvars, rvars, tvars>>

\* the files next to the artifact: the artifact itself, optional siblings
\* with import statements of their own, and files named like library modules
SiblingChoices(stem) ==
    {Content(p, stem) : p \in Programs(MaxImports)} \cup {Absent}

StmtCount(c) == IF c = Absent THEN 0 ELSE Cardinality(c.stmts)

ObfInit ==
    /\ \E pa \in Programs(MaxImports) :
       \E cb \in SiblingChoices("b") :
       \E cc \in SiblingChoices("a_original") :
          /\ Cardinality(pa) + StmtCount(cb) + StmtCount(cc) <= MaxImports
          /\ fs = [p \in {TEST_FILE}
                         \cup (IF cb = Absent THEN {} ELSE {PyFile(SRC_DIR, "b")})
                         \cup (IF cc = Absent THEN {}
                               ELSE {PyFile(SRC_DIR, "a_original")})
                         \cup {PyFile(SRC_DIR, "os"),
                               PyFile(SRC_DIR, UNLISTED_STANDARD_MODULE)} |->
                      IF p = TEST_FILE THEN Content(pa, "a")
                      ELSE IF p = PyFile(SRC_DIR, "b") THEN cb
                      ELSE IF p = PyFile(SRC_DIR, "a_original") THEN cc
                      ELSE Content({}, StemOf(p))]
    /\ tool_name = "original"
    /\ apc = "idle"
    /\ stack = <<>>
    /\ dependencies = <<>>
    /\ to_copy = <<>>
    /\ output = Pending
    /\ calls = 0
    /\ history = <<>>
    /\ overflowed = FALSE

ObfNext ==
    \/ ApplyObfuscation
    \/ DetectSkip
    \/ DetectRecurse
    \/ DetectRecursionError
    \/ DetectReturn
    \/ CopyMain
    \/ CopyDep
    \/ ReturnOriginal

\* the variables of a component that is not running
MeasureIdle ==
    /\ obfuscated_file = None
    /\ iterations = 0
    /\ file_size = 0
    /\ resources = {}
    /\ staged = {}
    /\ metrics = [m \in METRICS |-> <<>>]
    /\ iter = 0
    /\ mpc = "idle"
    /\ memory_usage = UNBOUND
    /\ proc = "none"
    /\ cwd = "orig"
    /\ current_dir = "orig"
    /\ mresult = Pending
    /\ returncode = "None"
    /\ raised = 0

ObfIdle ==
    /\ fs = [p \in {TEST_FILE} |-> Content({}, "a")]
    /\ tool_name = "original"
    /\ apc = "off"
    /\ stack = <<>>
    /\ dependencies = <<>>
    /\ to_copy = <<>>
    /\ output = Pending
    /\ calls = 0
    /\ history = <<>>
    /\ overflowed = FALSE

(* ------------------------------ the run ------------------------------- *)
\* lines 36-93: the registry in the order of the dictionary
TOOL_ORDER ==
    <<"original", "pyarmor7", "pyarmor_gen", "pyminifier", "opy", "pyobfuscate",
      "cython", "pyinstaller">>
ToolNames == Range(TOOL_ORDER)

Tool(enabled, command, out) ==
    [enabled |-> enabled, command |-> command, output |-> out]

INITIAL_TOOLS ==
    [t \in ToolNames |->
        CASE t = "original" -> Tool(TRUE, None, None)
          [] t = "pyarmor7" ->
                Tool(TRUE, "pyarmor-7 obfuscate {input_file} -O {output_dir}",
                     "{output_dir}/dist/{input_name}.py")
          [] t = "pyarmor_gen" ->
                Tool(TRUE, "pyarmor gen {input_file}", "dist/{input_name}.py")
          [] t = "pyminifier" ->
                Tool(TRUE, "python -m pyminifier {input_file} > {output_file}",
                     "{output_dir}/{input_name}.min.py")
          [] t = "opy" ->
                Tool(FALSE, "python -c from opy.tool import main",
                     "{output_dir}/{input_name}.opy.py")
          [] t = "pyobfuscate" ->
                Tool(TRUE, "pyobfuscate -i {input_file} > {output_temp}",
                     "{output_dir}/{input_name}.obf.py")
          [] t = "cython" -> Tool(TRUE, None, None)
          [] t = "pyinstaller" ->
                Tool(TRUE,
                     "pyinstaller --onefile {input_file} --distpath {output_dir}",
                     "{output_dir}/{input_name}")]

Disable(tools, t) == [tools EXCEPT ![t].enabled = FALSE]

\* the interpreter versions explored
PythonVersions == {<<3, 10>>, <<3, 11>>, <<4, 0>>}

\* the --disable-tools lists explored: the short ones, and the one that
\* leaves only the identity tool
DisableLists ==
    {d \in SUBSET ToolNames : Cardinality(d) <= MaxDisabled}
        \cup {ToolNames \ {"original"}}

TestFileLists ==
    UNION {[1..n -> [path : 1..MaxTestFiles, isfile : BOOLEAN]] :
              n \in 1..MaxTestFiles}

RunInit ==
    /\ test_files \in {l \in TestFileLists : \A i \in 1..Len(l) : l[i].path = i}
    /\ disable_tools \in DisableLists
    /\ python_version \in PythonVersions
    /\ TOOLS = INITIAL_TOOLS
    /\ results = <<>>
    /\ pc = "check_files"
    /\ file_idx = 1
    /\ tool_idx = 1
    /\ temp_dir = "none"
    /\ written = FALSE
    /\ exit_status = "running"
    /\ faults = 0
    /\ probe_failed = {}

\* lines 1313-1316: a named test file that is no file ends the run
MissingTestFile ==
    /\ pc = "check_files"
    /\ \E i \in 1..Len(test_files) : ~test_files[i].isfile
    /\ exit_status' = "1"
    /\ pc' = "done"
    /\ UNCHANGED <<probe_failed, test_files, disable_tools, python_version, TOOLS, results,
                   file_idx, tool_idx, temp_dir, written, faults>>
    /\ UNCHANGED <<mvars, ovars, tvars>>

\* lines 1313-1323: every test file exists; the tools of the disable-list
\* are switched off
DisableTools ==
    /\ pc = "check_files"
    /\ \A i \in 1..Len(test_files) : test_files[i].isfile
    /\ TOOLS' = [t \in ToolNames |->
                    IF t \in disable_tools
                    THEN [TOOLS[t] EXCEPT !.enabled = FALSE] ELSE TOOLS[t]]
    /\ pc' = "construct"
    /\ UNCHANGED <<probe_failed, test_files, disable_tools, python_version, results,
                   file_idx, tool_idx, temp_dir, written, exit_status, faults>>
    /\ UNCHANGED <<mvars, ovars, tvars>>

\* lines 120-127: the constructor creates the output directory and the
\* temporary workspace
Construct ==
    /\ pc = "construct"
    /\ results' = <<>>
    /\ temp_dir' = "created"
    /\ pc' = "env_pyinstaller"
    /\ UNCHANGED <<probe_failed, test_files, disable_tools, python_version, TOOLS,
                   file_idx, tool_idx, written, exit_status, faults>>
    /\ UNCHANGED <<mvars, ovars, tvars>>

\* line 123: the output directory cannot be created; the exception leaves
\* main
ConstructFails ==
    /\ pc = "construct"
    /\ faults < MaxRunFaults
    /\ faults' = faults + 1
    /\ exit_status' = "1"
    /\ pc' = "done"
    /\ UNCHANGED <<probe_failed, test_files, disable_tools, python_version, TOOLS, results,
                   file_idx, tool_idx, temp_dir, written>>
    /\ UNCHANGED <<mvars, ovars, tvars>>

\* lines 231-245: under Anaconda with a pathlib backport PyInstaller is
\* switched off; any other outcome leaves it alone, a probe that raises
\* included (line 244)
EnvPyinstaller ==
    /\ pc = "env_pyinstaller"
    /\ \/ UNCHANGED <<TOOLS, faults, probe_failed>>
       \/ /\ TOOLS["pyinstaller"].enabled
          /\ faults < MaxRunFaults
          /\ faults' = faults + 1
          /\ \/ /\ TOOLS' = Disable(TOOLS, "pyinstaller")
                /\ UNCHANGED probe_failed
             \/ /\ probe_failed' = probe_failed \cup {"pyinstaller"}
                /\ UNCHANGED TOOLS
    /\ pc' = "env_pyarmor7"
    /\ UNCHANGED <<test_files, disable_tools, python_version, results,
                   file_idx, tool_idx, temp_dir, written, exit_status>>
    /\ UNCHANGED <<mvars, ovars, tvars>>

\* line 248: the version test of the PyArmor 7 check
Pyarmor7Unsupported(version) == version[1] = 3 /\ version[2] >= 11

\* lines 247-251
EnvPyarmor7 ==
    /\ pc = "env_pyarmor7"
    /\ TOOLS' = IF Pyarmor7Unsupported(python_version) /\ TOOLS["pyarmor7"].enabled
                THEN Disable(TOOLS, "pyarmor7") ELSE TOOLS
    /\ pc' = "env_opy"
    /\ UNCHANGED <<probe_failed, test_files, disable_tools, python_version, results,
                   file_idx, tool_idx, temp_dir, written, exit_status, faults>>
    /\ UNCHANGED <<mvars, ovars, tvars>>

OPY_COMMAND_FOUND == "python -c from opy.{opy_tool} import main"

\* lines 253-275: only when opy is enabled: the command is rewritten when
\* the module is found (at once or after installing it); else, and when the
\* installation raises, opy is switched off
EnvOpy ==
    /\ pc = "env_opy"
    /\ IF TOOLS["opy"].enabled
       THEN \/ /\ TOOLS' = [TOOLS EXCEPT !["opy"].command = OPY_COMMAND_FOUND]
               /\ UNCHANGED <<faults, probe_failed>>
            \/ /\ faults < MaxRunFaults
               /\ faults' = faults + 1
               /\ TOOLS' = Disable(TOOLS, "opy")
               /\ probe_failed' = probe_failed \cup {"opy"}
       ELSE UNCHANGED <<TOOLS, faults, probe_failed>>
    /\ pc' = "env_pyarmor_gen"
    /\ UNCHANGED <<test_files, disable_tools, python_version, results,
                   file_idx, tool_idx, temp_dir, written, exit_status>>
    /\ UNCHANGED <<mvars, ovars, tvars>>

\* lines 277-300: PyArmor 8 or 9 gets the corrected command; any other
\* version output, or a version call that raises (pyarmor is not
\* installed), switches pyarmor_gen off
EnvPyarmorGen ==
    /\ pc = "env_pyarmor_gen"
    /\ IF TOOLS["pyarmor_gen"].enabled
       THEN \/ /\ TOOLS' = [TOOLS EXCEPT
                     !["pyarmor_gen"].command =
                         "pyarmor gen -O {output_dir}/dist {input_file}",
                     !["pyarmor_gen"].output = "{output_dir}/dist/{input_name}.py"]
               /\ UNCHANGED <<faults, probe_failed>>
            \/ /\ faults < MaxRunFaults
               /\ faults' = faults + 1
               /\ TOOLS' = Disable(TOOLS, "pyarmor_gen")
               /\ probe_failed' = probe_failed \cup {"pyarmor_gen"}
       ELSE UNCHANGED <<TOOLS, faults, probe_failed>>
    /\ pc' = "env_pyminifier"
    /\ UNCHANGED <<test_files, disable_tools, python_version, results,
                   file_idx, tool_idx, temp_dir, written, exit_status>>
    /\ UNCHANGED <<mvars, ovars, tvars>>

PYMINIFIER_BASIC == "python -m pyminifier {input_file} > {output_file}"

\* lines 304-326: the command of pyminifier is chosen from its help text;
\* a help call that raises, or that prints no help because the module is
\* not installed, sets the basic command and leaves the tool enabled
EnvPyminifier ==
    /\ pc = "env_pyminifier"
    /\ IF TOOLS["pyminifier"].enabled
       THEN \/ /\ \E c \in {"python -m pyminifier --no-obfuscate {input_file} > {output_file}",
                             PYMINIFIER_BASIC} :
                      TOOLS' = [TOOLS EXCEPT !["pyminifier"].command = c]
               /\ UNCHANGED <<faults, probe_failed>>
            \/ /\ faults < MaxRunFaults
               /\ faults' = faults + 1
               /\ TOOLS' = [TOOLS EXCEPT !["pyminifier"].command =
                                            PYMINIFIER_BASIC]
               /\ probe_failed' = probe_failed \cup {"pyminifier"}
       ELSE UNCHANGED <<TOOLS, faults, probe_failed>>
    /\ pc' = "env_pyobfuscate"
    /\ UNCHANGED <<test_files, disable_tools, python_version, results,
                   file_idx, tool_idx, temp_dir, written, exit_status>>
    /\ UNCHANGED <<mvars, ovars, tvars>>

\* lines 328-340: pyobfuscate gets -k when its help text offers it; a help
\* call that raises (pyobfuscate is not installed) is logged and the tool
\* stays as it is
EnvPyobfuscate ==
    /\ pc = "env_pyobfuscate"
    /\ IF TOOLS["pyobfuscate"].enabled
       THEN \/ /\ \E c \in {"pyobfuscate -k -i {input_file} > {output_temp}",
                             TOOLS["pyobfuscate"].command} :
                      TOOLS' = [TOOLS EXCEPT !["pyobfuscate"].command = c]
               /\ UNCHANGED <<faults, probe_failed>>
            \/ /\ faults < MaxRunFaults
               /\ faults' = faults + 1
               /\ probe_failed' = probe_failed \cup {"pyobfuscate"}
               /\ UNCHANGED TOOLS
       ELSE UNCHANGED <<TOOLS, faults, probe_failed>>
    /\ pc' = "system_info"
    /\ UNCHANGED <<test_files, disable_tools, python_version, results,
                   file_idx, tool_idx, temp_dir, written, exit_status>>
    /\ UNCHANGED <<mvars, ovars, tvars>>

\* lines 1333, 1099: the system information is written
SystemInfo ==
    /\ pc = "system_info"
    /\ tool_idx' = 1
    /\ pc' = "install"
    /\ UNCHANGED <<probe_failed, test_files, disable_tools, python_version, TOOLS, results,
                   file_idx, temp_dir, written, exit_status, faults>>
    /\ UNCHANGED <<mvars, ovars, tvars>>

\* lines 382-388, 391-411, 416-418: a tool that is switched off, the
\* identity tool, a tool found installed and a tool whose installation
\* succeeds are left as they are
InstallSkipOrOkEnabling ==
    /\ pc = "install"
    /\ tool_idx <= Len(TOOL_ORDER)
    /\ TOOLS' = [TOOLS EXCEPT ![TOOL_ORDER[tool_idx]].enabled = TRUE]
    /\ tool_idx' = tool_idx + 1
    /\ UNCHANGED <<probe_failed, test_files, disable_tools, python_version,
                   results, pc, file_idx, temp_dir, written, exit_status,
                   faults>>
    /\ UNCHANGED <<mvars, ovars, tvars>>
InstallSkipOrOk ==
    /\ pc = "install"
    /\ tool_idx <= Len(TOOL_ORDER)
    /\ tool_idx' = tool_idx + 1
    /\ UNCHANGED <<probe_failed, test_files, disable_tools, python_version, TOOLS, results,
                   pc, file_idx, temp_dir, written, exit_status, faults>>
    /\ UNCHANGED <<mvars, ovars, tvars>>

\* lines 413-426: the installation command fails or raises: the tool is
\* switched off
InstallFails ==
    /\ pc = "install"
    /\ tool_idx <= Len(TOOL_ORDER)
    /\ TOOLS[TOOL_ORDER[tool_idx]].enabled
    /\ TOOL_ORDER[tool_idx] # "original"
    /\ faults < MaxRunFaults
    /\ faults' = faults + 1
    /\ TOOLS' = Disable(TOOLS, TOOL_ORDER[tool_idx])
    /\ tool_idx' = tool_idx + 1
    /\ UNCHANGED <<probe_failed, test_files, disable_tools, python_version, results, pc,
                   file_idx, temp_dir, written, exit_status>>
    /\ UNCHANGED <<mvars, ovars, tvars>>

\* lines 827-829: the loop over the test files starts the next file
NextTestFile ==
    /\ pc \in {"install", "trials"}
    /\ tool_idx > Len(TOOL_ORDER)
    /\ IF pc = "install" THEN file_idx' = 1 ELSE file_idx' = file_idx + 1
    /\ IF file_idx' <= Len(test_files)
       THEN /\ results' = [p \in DOMAIN results \cup {test_files[file_idx'].path} |->
                              IF p = test_files[file_idx'].path THEN <<>>
                              ELSE results[p]]
            /\ tool_idx' = 1
            /\ pc' = "trials"
       ELSE /\ pc' = "save"
            /\ UNCHANGED <<results, tool_idx>>
    /\ UNCHANGED <<probe_failed, test_files, disable_tools, python_version, TOOLS, temp_dir,
                   written, exit_status, faults>>
    /\ UNCHANGED <<mvars, ovars, tvars>>

\* line 832: the test of the trial loop
TrialEnabledIgnoringFlag(t) == TRUE
TrialEnabled(t) == TOOLS[t].enabled

\* the summaries a trial records (lines 807-821)
TrialMetrics == [m \in METRICS |-> Summary(<<0, 1>>)]

Record(path, t, m) ==
    [results EXCEPT ![path] =
        [u \in DOMAIN results[path] \cup {t} |->
            IF u = t THEN m ELSE results[path][u]]]

\* lines 832-834: a tool that is switched off is skipped
TrialSkip ==
    /\ pc = "trials"
    /\ tool_idx <= Len(TOOL_ORDER)
    /\ ~TrialEnabled(TOOL_ORDER[tool_idx])
    /\ tool_idx' = tool_idx + 1
    /\ UNCHANGED <<probe_failed, test_files, disable_tools, python_version, TOOLS, results,
                   pc, file_idx, temp_dir, written, exit_status, faults>>
    /\ UNCHANGED <<mvars, ovars, tvars>>

\* lines 836-843: the artifact is obfuscated and measured and the
\* summaries are stored under the tool's name
TrialRecorded ==
    /\ pc = "trials"
    /\ tool_idx <= Len(TOOL_ORDER)
    /\ TrialEnabled(TOOL_ORDER[tool_idx])
    /\ results' = Record(test_files[file_idx].path, TOOL_ORDER[tool_idx],
                         TrialMetrics)
    /\ tool_idx' = tool_idx + 1
    /\ UNCHANGED <<probe_failed, test_files, disable_tools, python_version, TOOLS, pc,
                   file_idx, temp_dir, written, exit_status, faults>>
    /\ UNCHANGED <<mvars, ovars, tvars>>

\* lines 844-849: apply_obfuscation or measure_performance returns None or
\* raises: the failure is logged and nothing is stored
TrialFailsDisablingTool ==
    /\ pc = "trials"
    /\ tool_idx <= Len(TOOL_ORDER)
    /\ TrialEnabled(TOOL_ORDER[tool_idx])
    /\ faults < MaxRunFaults
    /\ faults' = faults + 1
    /\ TOOLS' = Disable(TOOLS, TOOL_ORDER[tool_idx])
    /\ tool_idx' = tool_idx + 1
    /\ UNCHANGED <<probe_failed, test_files, disable_tools, python_version,
                   results, pc, file_idx, temp_dir, written, exit_status>>
    /\ UNCHANGED <<mvars, ovars, tvars>>
TrialFails ==
    /\ pc = "trials"
    /\ tool_idx <= Len(TOOL_ORDER)
    /\ TrialEnabled(TOOL_ORDER[tool_idx])
    /\ faults < MaxRunFaults
    /\ faults' = faults + 1
    /\ tool_idx' = tool_idx + 1
    /\ UNCHANGED <<probe_failed, test_files, disable_tools, python_version, TOOLS, results,
                   pc, file_idx, temp_dir, written, exit_status>>
    /\ UNCHANGED <<mvars, ovars, tvars>>

\* lines 852-868: the results are written unless there are none
SaveResults ==
    /\ pc = "save"
    /\ written' = (results # <<>>)
    /\ pc' = "reports"
    /\ UNCHANGED <<probe_failed, test_files, disable_tools, python_version, TOOLS, results,
                   file_idx, tool_idx, temp_dir, exit_status, faults>>
    /\ UNCHANGED <<mvars, ovars, tvars>>

\* lines 1335-1340: the reports are generated, or fail and are logged
GenerateReportsNoFinally ==
    /\ pc = "reports"
    /\ \/ UNCHANGED faults /\ pc' = "cleanup" /\ UNCHANGED exit_status
       \/ /\ faults < MaxRunFaults /\ faults' = faults + 1
          /\ pc' = "done" /\ exit_status' = "0"
    /\ UNCHANGED <<probe_failed, test_files, disable_tools, python_version, TOOLS, results,
                   file_idx, tool_idx, temp_dir, written>>
    /\ UNCHANGED <<mvars, ovars, tvars>>
GenerateReports ==
    /\ pc = "reports"
    /\ \/ UNCHANGED faults
       \/ faults < MaxRunFaults /\ faults' = faults + 1
    /\ pc' = "cleanup"
    /\ UNCHANGED <<probe_failed, test_files, disable_tools, python_version, TOOLS, results,
                   file_idx, tool_idx, temp_dir, written, exit_status>>
    /\ UNCHANGED <<mvars, ovars, tvars>>

\* lines 132-138, 1341-1342: the temporary workspace is removed; when
\* shutil.rmtree raises, a warning is logged and the workspace stays
Cleanup ==
    /\ pc = "cleanup"
    /\ \/ temp_dir' = "deleted" /\ UNCHANGED faults
       \/ /\ faults < MaxRunFaults
          /\ faults' = faults + 1
          /\ temp_dir' = "undeletable"
    /\ exit_status' = "0"
    /\ pc' = "done"
    /\ UNCHANGED <<probe_failed, test_files, disable_tools, python_version, TOOLS, results,
                   file_idx, tool_idx, written>>
    /\ UNCHANGED <<mvars, ovars, tvars>>

RunNext ==
    \/ MissingTestFile
    \/ DisableTools
    \/ Construct
    \/ ConstructFails
    \/ EnvPyinstaller
    \/ EnvPyarmor7
    \/ EnvOpy
    \/ EnvPyarmorGen
    \/ EnvPyminifier
    \/ EnvPyobfuscate
    \/ SystemInfo
    \/ InstallSkipOrOk
    \/ InstallFails
    \/ NextTestFile
    \/ TrialSkip
    \/ TrialRecorded
    \/ TrialFails
    \/ SaveResults
    \/ GenerateReports
    \/ Cleanup

\* the operations that write the registry, called by a program that uses
\* the module in an order of its own: the disable loop of main (lines
\* 1318-1323) followed by the constructor, check_environment (line 224)
\* and install_tools (line 378, the first statement of run_benchmark); a
\* call starts when the operation before it has returned
CallOperation ==
    /\ \/ pc \in {"construct", "system_info"}
       \/ pc = "install" /\ tool_idx > Len(TOOL_ORDER)
    /\ pc' \in {"check_files", "env_pyinstaller", "install"}
    /\ tool_idx' = 1
    /\ UNCHANGED <<probe_failed, test_files, disable_tools, python_version,
                   TOOLS, results, file_idx, temp_dir, written, exit_status,
                   faults>>
    /\ UNCHANGED <<mvars, ovars, tvars>>

CallsNext ==
    \/ CallOperation
    \/ DisableTools
    \/ Construct
    \/ EnvPyinstaller
    \/ EnvPyarmor7
    \/ EnvOpy
    \/ EnvPyarmorGen
    \/ EnvPyminifier
    \/ EnvPyobfuscate
    \/ SystemInfo
    \/ InstallSkipOrOk
    \/ InstallFails

RunIdle ==
    /\ test_files = <<>>
    /\ disable_tools = {}
    /\ python_version = <<3, 10>>
    /\ TOOLS = INITIAL_TOOLS
    /\ results = <<>>
    /\ pc = "off"
    /\ file_idx = 1
    /\ tool_idx = 1
    /\ temp_dir = "none"
    /\ written = FALSE
    /\ exit_status = "running"
    /\ faults = 0
    /\ probe_failed = {}

(* ----------------------- one trial of run_benchmark ------------------- *)
\* the sibling the artifact imports in the layouts of the trial
DEP_FILE == PyFile(SRC_DIR, "b")

\* an exception has left the call
Raised == [kind |-> "raised"]

\* lines 547-551, 598-602: tool_info['output'].format(...) for the output
\* templates of the registry; output_dir is the temporary workspace and a
\* template without {output_dir} is relative to the working directory
FormatOutput(template, input_name) ==
    CASE template = "{output_dir}/dist/{input_name}.py" ->
             Path(TEMP_DIR, "dist/" \o input_name \o ".py")
      [] template = "dist/{input_name}.py" ->
             Path("cwd", "dist/" \o input_name \o ".py")
      [] template = "{output_dir}/{input_name}.min.py" ->
             Path(TEMP_DIR, input_name \o ".min.py")
      [] template = "{output_dir}/{input_name}.opy.py" ->
             Path(TEMP_DIR, input_name \o ".opy.py")
      [] template = "{output_dir}/{input_name}.obf.py" ->
             Path(TEMP_DIR, input_name \o ".obf.py")
      [] template = "{output_dir}/{input_name}" ->
             Path(TEMP_DIR, input_name)

\* lines 554-556, 604-606: pyobfuscate writes to a temporary file first
OutputTemp(t, output_file) ==
    IF t = "pyobfuscate"
    THEN Path(output_file.dir, output_file.name \o ".temp")
    ELSE output_file

OutputFile(t, input) == FormatOutput(TOOLS[t].output, StemOf(input))

\* what an obfuscator writes for a source file, before and after the
\* repair pass of lines 430-497
Obfuscated(src, repaired) == [src |-> src, repaired |-> repaired]

WriteFile(f, path, content) ==
    [q \in DOMAIN f \cup {path} |-> IF q = path THEN content ELSE f[q]]

\* shutil.move(src, dst)
MoveFile(f, src, dst) ==
    [q \in (DOMAIN f \ {src}) \cup {dst} |-> IF q = dst THEN f[src] ELSE f[q]]

\* line 506: what the resolver returns for the artifact in these layouts
ResolvedDependencies ==
    IF DEP_FILE \in DOMAIN fs THEN <<DEP_FILE>> ELSE <<>>

\* the variables no step of a trial changes
trial_fixed ==
    <<obfuscated_file, iterations, file_size, resources, staged, metrics,
      iter, mpc, memory_usage, proc, cwd, current_dir, returncode, raised,
      stack, calls, history, overflowed, test_files, disable_tools,
      python_version, TOOLS, pc, file_idx, temp_dir, written, exit_status,
      probe_failed>>

\* the environment fails n more times, within the failures explored
Fault(n) == faults + n <= MaxFaults /\ faults' = faults + n
B(b) == IF b THEN 1 ELSE 0

\* lines 277-293: the registry once check_environment has found PyArmor 8+
\* (the other outcome switches pyarmor_gen off)
PROBED_TOOLS ==
    [INITIAL_TOOLS EXCEPT
        !["pyarmor_gen"].command = "pyarmor gen -O {output_dir}/dist {input_file}",
        !["pyarmor_gen"].output = "{output_dir}/dist/{input_name}.py"]

\* a trial starts from the loop of the tools after line 829, with any of
\* the tools switched off and the artifact with or without a dependency
TrialInit ==
    /\ test_files = <<[path |-> 1, isfile |-> TRUE]>>
    /\ disable_tools \in DisableLists
    /\ python_version = <<3, 10>>
    /\ TOOLS = [t \in ToolNames |->
                   IF t \in disable_tools
                   THEN [PROBED_TOOLS[t] EXCEPT !.enabled = FALSE]
                   ELSE PROBED_TOOLS[t]]
    /\ results = [p \in {1} |-> <<>>]
    /\ pc = "trials"
    /\ file_idx = 1
    /\ tool_idx = 1
    /\ temp_dir = "created"
    /\ written = FALSE
    /\ exit_status = "running"
    /\ faults = 0
    /\ probe_failed = {}
    /\ fs \in {[p \in {TEST_FILE} |-> Content({}, "a")],
               [p \in {TEST_FILE, DEP_FILE} |->
                   IF p = TEST_FILE
                   THEN Content({[kind |-> "import", mod |-> "b", name |-> ""]},
                                "a")
                   ELSE Content({}, "b")]}
    /\ tool_name = "original"
    /\ apc = "idle"
    /\ stack = <<>>
    /\ dependencies = <<>>
    /\ to_copy = <<>>
    /\ output = Pending
    /\ calls = 0
    /\ history = <<>>
    /\ overflowed = FALSE
    /\ events = {}

\* lines 836-838, 506, 509, 535, 546: an enabled tool is applied to the
\* artifact; the dependencies are resolved first
TrialStart ==
    /\ pc = "trials"
    /\ apc = "idle"
    /\ tool_idx <= Len(TOOL_ORDER)
    /\ TrialEnabled(TOOL_ORDER[tool_idx])
    /\ tool_name' = TOOL_ORDER[tool_idx]
    /\ dependencies' = ResolvedDependencies
    /\ to_copy' = ResolvedDependencies
    /\ output' = Pending
    /\ mresult' = Pending
    /\ events' = {}
    /\ apc' = CASE tool_name' = "original" -> "identity"
                [] tool_name' = "cython" -> "cython"
                [] OTHER -> "command"
    /\ UNCHANGED <<fs, results, tool_idx, faults>>
    /\ UNCHANGED trial_fixed

\* lines 509-521: the identity tool copies the artifact and then every
\* dependency; no handler surrounds the copies, so a copy that raises leaves
\* apply_obfuscation
ApplyIdentity ==
    /\ apc = "identity"
    /\ \/ /\ Fault(1)
          /\ output' = Raised
          /\ events' = events \cup {"main_copy_raised"}
          /\ UNCHANGED <<fs, to_copy>>
       \/ /\ dependencies # <<>>
          /\ Fault(1)
          /\ fs' = Copy2(TEST_FILE, OriginalOutputPath(TEST_FILE))
          /\ output' = Raised
          /\ events' = events \cup {"dep_copy_raised"}
          /\ UNCHANGED to_copy
       \/ /\ Fault(0)
          /\ fs' = IF dependencies = <<>>
                   THEN Copy2(TEST_FILE, OriginalOutputPath(TEST_FILE))
                   ELSE [q \in DOMAIN fs \cup {OriginalOutputPath(TEST_FILE),
                                               DepOutputPath(dependencies[1])} |->
                            IF q = DepOutputPath(dependencies[1])
                            THEN fs[dependencies[1]]
                            ELSE IF q = OriginalOutputPath(TEST_FILE)
                            THEN fs[TEST_FILE] ELSE fs[q]]
          /\ to_copy' = <<>>
          /\ output' = Returned(OriginalOutputPath(TEST_FILE))
          /\ UNCHANGED events
    /\ apc' = "returned"
    /\ UNCHANGED <<tool_name, dependencies, mresult, results, tool_idx>>
    /\ UNCHANGED trial_fixed

\* lines 646, 692: the files _apply_cython works with
CythonFile(input) == Path(TEMP_DIR, StemOf(input) \o ".pyx")
WrapperFile(input) == Path(TEMP_DIR, StemOf(input) \o "_cython_wrapper.py")

\* lines 640-716: what _apply_cython leaves in the workspace and returns
\* for each way it can end: "copy_raised" (lines 647-661, outside the
\* handler), "nonzero" (670-672), "no_output" (678-680), "raised" (714-716)
\* and "ok"
CythonFiles(f, input, how) ==
    IF how = "copy_raised" THEN f
    ELSE IF how = "ok"
    THEN WriteFile(WriteFile(f, CythonFile(input), f[input]),
                   WrapperFile(input), Obfuscated(input, FALSE))
    ELSE WriteFile(f, CythonFile(input), f[input])

CythonOutcomes == {"ok", "nonzero", "no_output", "raised", "copy_raised"}

\* lines 535-543: cython compiles the artifact, then every dependency, and
\* returns what the artifact's compilation returned
ApplyCython ==
    /\ apc = "cython"
    /\ \E m \in CythonOutcomes :
          IF m = "copy_raised"
          THEN /\ Fault(1)
               /\ output' = Raised
               /\ events' = events \cup {"main_copy_raised"}
               /\ UNCHANGED <<fs, to_copy>>
          ELSE \E d \in IF dependencies = <<>> THEN {"none"} ELSE CythonOutcomes :
                  /\ Fault(B(m # "ok") + B(d \notin {"none", "ok"}))
                  /\ fs' = IF d = "none" THEN CythonFiles(fs, TEST_FILE, m)
                           ELSE CythonFiles(CythonFiles(fs, TEST_FILE, m),
                                            dependencies[1], d)
                  /\ to_copy' = IF d = "copy_raised" THEN to_copy ELSE <<>>
                  /\ output' = IF d = "copy_raised" THEN Raised
                               ELSE IF m = "ok"
                               THEN Returned(WrapperFile(TEST_FILE))
                               ELSE ReturnedNone
                  /\ events' = events
                        \cup (IF m = "ok" THEN {} ELSE {"main_" \o m})
                        \cup (IF d \in {"none", "ok"} THEN {} ELSE {"dep_" \o d})
    /\ apc' = "returned"
    /\ UNCHANGED <<tool_name, dependencies, mresult, results, tool_idx>>
    /\ UNCHANGED trial_fixed

\* lines 350-376 under a shell: the command ends with exit code 0
\* ("ok"), with another code ("nonzero": CalledProcessError, turned into
\* success = False) or subprocess.run raises something else ("raised");
\* the file the command writes may or may not be there afterwards
CommandOutcomes == {"ok", "nonzero", "raised"}

\* lines 546-576: the output directory is made (outside the handler of
\* line 570) and the command of the tool is run on the artifact
ExecuteMainIgnoringExitCode ==
    /\ apc = "command"
    /\ \E c \in CommandOutcomes, created \in BOOLEAN :
          /\ Fault(B(c # "ok") + B(~created))
          /\ fs' = IF created
                   THEN WriteFile(fs, OutputTemp(tool_name,
                                                 OutputFile(tool_name, TEST_FILE)),
                                  Obfuscated(TEST_FILE, FALSE))
                   ELSE fs
          /\ events' = IF c = "ok" THEN events ELSE events \cup {"main_" \o c}
          /\ apc' = "post_process"
          /\ UNCHANGED output
    /\ UNCHANGED <<tool_name, dependencies, to_copy, mresult, results, tool_idx>>
    /\ UNCHANGED trial_fixed
ExecuteMain ==
    /\ apc = "command"
    /\ \/ /\ Fault(1)
          /\ output' = Raised
          /\ events' = events \cup {"main_makedirs_raised"}
          /\ apc' = "returned"
          /\ UNCHANGED fs
       \/ \E c \in CommandOutcomes, created \in BOOLEAN :
             /\ Fault(B(c # "ok") + B(~created))
             /\ fs' = IF created
                      THEN WriteFile(fs, OutputTemp(tool_name,
                                                    OutputFile(tool_name, TEST_FILE)),
                                     Obfuscated(TEST_FILE, FALSE))
                      ELSE fs
             /\ IF c = "ok"
                THEN /\ apc' = "post_process"
                     /\ UNCHANGED <<output, events>>
                ELSE /\ output' = ReturnedNone
                     /\ events' = events \cup {"main_" \o c}
                     /\ apc' = "returned"
    /\ UNCHANGED <<tool_name, dependencies, to_copy, mresult, results, tool_idx>>
    /\ UNCHANGED trial_fixed

\* lines 430-500: the repair pass rewrites the file and returns True, or
\* returns False when the file cannot be read or written
FixPyobfuscateOutput(f, path, ok) ==
    IF ok /\ path \in DOMAIN f
    THEN WriteFile(f, path, [f[path] EXCEPT !.repaired = TRUE])
    ELSE f

\* lines 578-590: the output of pyobfuscate is moved into place and
\* repaired, the value the repair pass returns is not looked at; then the
\* output file must exist
PostProcessMain ==
    /\ apc = "post_process"
    /\ LET output_file == OutputFile(tool_name, TEST_FILE)
           output_temp == OutputTemp(tool_name, output_file)
           Checked(f, ev) ==
               /\ Fault(Cardinality(ev))
               /\ fs' = f
               /\ IF output_file \in DOMAIN f
                  THEN /\ events' = events \cup ev
                       /\ apc' = "dependencies"
                       /\ UNCHANGED output
                  ELSE /\ events' = events \cup ev \cup {"main_no_output"}
                       /\ output' = ReturnedNone
                       /\ apc' = "returned"
       IN  IF tool_name = "pyobfuscate" /\ output_temp \in DOMAIN fs
           THEN \/ /\ Fault(1)
                   /\ output' = ReturnedNone
                   /\ events' = events \cup {"main_move_raised"}
                   /\ apc' = "returned"
                   /\ UNCHANGED fs
                \/ \E ok \in BOOLEAN :
                      Checked(FixPyobfuscateOutput(
                                  MoveFile(fs, output_temp, output_file),
                                  output_file, ok),
                              IF ok THEN {} ELSE {"main_repair_failed"})
           ELSE Checked(fs, {})
    /\ UNCHANGED <<tool_name, dependencies, to_copy, mresult, results, tool_idx>>
    /\ UNCHANGED trial_fixed

\* lines 592-628: the same command is run on the next dependency; a
\* non-zero exit is a warning, an exception ends in the handler of line 632
ProcessDependency ==
    /\ apc = "dependencies"
    /\ to_copy # <<>>
    /\ LET dep == Head(to_copy)
           dep_output_file == OutputFile(tool_name, dep)
           dep_output_temp == OutputTemp(tool_name, dep_output_file)
           Fails(n, ev) ==
               /\ Fault(n)
               /\ output' = ReturnedNone
               /\ events' = events \cup {ev}
               /\ apc' = "returned"
               /\ UNCHANGED <<fs, to_copy>>
           Goes(n, f, ev) ==
               /\ Fault(n + Cardinality(ev))
               /\ fs' = f
               /\ events' = events \cup ev
               /\ to_copy' = Tail(to_copy)
               /\ UNCHANGED <<output, apc>>
       IN  \/ Fails(1, "dep_raised")
           \/ \E c \in {"ok", "nonzero"}, created \in BOOLEAN :
                 LET f == IF created
                          THEN WriteFile(fs, dep_output_temp, Obfuscated(dep, FALSE))
                          ELSE fs
                     ev == IF c = "ok" THEN {} ELSE {"dep_nonzero"}
                 IN  IF tool_name = "pyobfuscate" /\ dep_output_temp \in DOMAIN f
                     THEN \/ Fails(1 + B(~created) + Cardinality(ev),
                                   "dep_move_raised")
                          \/ \E ok \in BOOLEAN :
                                Goes(B(~created), FixPyobfuscateOutput(
                                         MoveFile(f, dep_output_temp, dep_output_file),
                                         dep_output_file, ok),
                                     ev \cup (IF ok THEN {} ELSE {"dep_repair_failed"}))
                     ELSE Goes(B(~created), f, ev)
    /\ UNCHANGED <<tool_name, dependencies, mresult, results, tool_idx>>
    /\ UNCHANGED trial_fixed

\* lines 630-631: every dependency has been processed
ReturnOutput ==
    /\ apc = "dependencies"
    /\ to_copy = <<>>
    /\ output' = Returned(OutputFile(tool_name, TEST_FILE))
    /\ apc' = "returned"
    /\ UNCHANGED <<fs, tool_name, dependencies, to_copy, mresult, results,
                   tool_idx, events, faults>>
    /\ UNCHANGED trial_fixed

\* lines 839-849: a path is measured and the summaries are stored; None,
\* a failed measurement and an exception are logged; the loop goes on
TrialFinish ==
    /\ apc = "returned"
    /\ IF output.kind = "value"
       THEN IF output.value \notin DOMAIN fs
            THEN /\ mresult' = ReturnedNone
                 /\ events' = events \cup {"measure_none"}
                 /\ UNCHANGED <<results, faults>>
            ELSE \/ /\ mresult' = Returned(TrialMetrics)
                    /\ results' = Record(test_files[file_idx].path, tool_name,
                                         TrialMetrics)
                    /\ UNCHANGED <<events, faults>>
                 \/ /\ Fault(1)
                    /\ mresult' = Raised
                    /\ events' = events \cup {"measure_raised"}
                    /\ UNCHANGED results
       ELSE UNCHANGED <<mresult, results, events, faults>>
    /\ tool_idx' = tool_idx + 1
    /\ apc' = "idle"
    /\ UNCHANGED <<fs, tool_name, dependencies, to_copy, output>>
    /\ UNCHANGED trial_fixed

TrialNext ==
    \/ TrialSkip
    \/ TrialStart
    \/ ApplyIdentity
    \/ ApplyCython
    \/ ExecuteMain
    \/ PostProcessMain
    \/ ProcessDependency
    \/ ReturnOutput
    \/ TrialFinish

\* lines 827-852: the tool loop on the artifact, followed by save_results
BenchmarkNext ==
    \/ TrialSkip
    \/ TrialStart
    \/ ApplyIdentity
    \/ ApplyCython
    \/ ExecuteMain
    \/ PostProcessMain
    \/ ProcessDependency
    \/ ReturnOutput
    \/ TrialFinish
    \/ NextTestFile
    \/ SaveResults

TrialIdle == events = {}

(* --------------------------- specifications --------------------------- *)
vars == <<mvars, ovars, rvars, tvars>>

Init == RunInit /\ MeasureIdle /\ ObfIdle /\ TrialIdle

Spec == Init /\ [][RunNext]_vars

InitMeasure == MeasureInit /\ ObfIdle /\ RunIdle /\ TrialIdle

SpecMeasure == InitMeasure /\ [][MeasureNext]_vars

InitObf == ObfInit /\ MeasureIdle /\ RunIdle /\ TrialIdle

SpecObf == InitObf /\ [][ObfNext]_vars

InitTrial == TrialInit /\ MeasureIdle

SpecTrial == InitTrial /\ [][TrialNext]_vars

\* the calls are made on one test file that exists
InitBenchmark == TrialInit /\ MeasureIdle

SpecBenchmark == InitBenchmark /\ [][BenchmarkNext]_vars

InitCalls ==
    /\ RunInit
    /\ Len(test_files) = 1
    /\ test_files[1].isfile
    /\ MeasureIdle
    /\ ObfIdle
    /\ TrialIdle

SpecCalls == InitCalls /\ [][CallsNext]_vars

(* ------------------------------ claims -------------------------------- *)
\* C1: a metric that has collected no sample when measure_performance
\* returns (an iteration count of 0 included) is summarised as exactly
\* mean = median = min = max = stdev = 0, and the call returns a result.
C1_EmptyMetricIsAllZero ==
    mpc = "done" /\ obfuscated_file = "present" =>
        /\ mresult.kind = "value"
        /\ \A m \in METRICS :
              metrics[m] = <<>> =>
                  /\ mresult.value[m].mean = Zero
                  /\ mresult.value[m].median = Zero
                  /\ mresult.value[m].min = Zero
                  /\ mresult.value[m].max = Zero
                  /\ mresult.value[m].stdev = Zero

C1_Witness ==
    /\ mpc = "done"
    /\ iterations = 0
    /\ mresult.kind = "value"
    /\ \A m \in METRICS : metrics[m] = <<>> /\ mresult.value[m] = ZeroSummary

\* C2: a metric with exactly one sample s is summarised with stdev = 0 and
\* mean = median = min = max = s.
C2_SingleSample ==
    mpc = "done" /\ mresult.kind = "value" =>
        \A m \in METRICS :
            Len(metrics[m]) = 1 =>
                LET s == Rat(metrics[m][1], 1)
                    r == mresult.value[m]
                IN  /\ RatEq(r.stdev, Zero)
                    /\ RatEq(r.mean, s)
                    /\ RatEq(r.median, s)
                    /\ RatEq(r.min, s)
                    /\ RatEq(r.max, s)

C2_Witness ==
    /\ mpc = "done"
    /\ mresult.kind = "value"
    /\ \E m \in METRICS : Len(metrics[m]) = 1 /\ metrics[m][1] > 0

\* C3: for every metric with two or more samples the summary satisfies
\* min <= median <= max and min <= mean <= max.
C3_SummaryOrdered ==
    mpc = "done" /\ mresult.kind = "value" =>
        \A m \in METRICS :
            Len(metrics[m]) >= 2 =>
                LET r == mresult.value[m]
                IN  /\ RatLe(r.min, r.median)
                    /\ RatLe(r.median, r.max)
                    /\ RatLe(r.min, r.mean)
                    /\ RatLe(r.mean, r.max)

C3_Witness ==
    /\ mpc = "done"
    /\ mresult.kind = "value"
    /\ \E m \in METRICS :
          /\ Len(metrics[m]) >= 2
          /\ ~RatEq(mresult.value[m].min, mresult.value[m].max)
          /\ ~RatEq(mresult.value[m].mean, mresult.value[m].min)

(* the import graph of the files next to the artifact, as the claims about
   the resolver speak of it: f imports g when a statement of f names the
   module of g (the X of "import X" or of "from X import Y"), g is a file of
   the same directory and X is not an excluded name *)
SourceFiles == {p \in DOMAIN fs : p.dir = SRC_DIR}

ImportsSibling(f, g) ==
    /\ g \in SourceFiles
    /\ StemOf(g) \notin EXCLUDED_MODULES
    /\ \E st \in fs[f].stmts : st.mod = StemOf(g)

RECURSIVE ReachedFrom(_)
ReachedFrom(S) ==
    LET next == S \cup {g \in SourceFiles : \E f \in S : ImportsSibling(f, g)}
    IN  IF next = S THEN S ELSE ReachedFrom(next)

\* the files reachable from f through one or more import edges
Reachable(f) == ReachedFrom({g \in SourceFiles : ImportsSibling(f, g)})

Acyclic == \A f \in Reachable(TEST_FILE) \cup {TEST_FILE} : f \notin Reachable(f)

NoDuplicates(s) == Cardinality(Range(s)) = Len(s)

C5_TransitiveClosure ==
    apc = "copy_main" /\ Acyclic =>
        Reachable(TEST_FILE) \subseteq Range(dependencies)

C5_Witness ==
    /\ Acyclic
    /\ apc = "copy_main"
    /\ ImportsSibling(TEST_FILE, PyFile(SRC_DIR, "b"))
    /\ ~ImportsSibling(TEST_FILE, PyFile(SRC_DIR, "a_original"))
    /\ ImportsSibling(PyFile(SRC_DIR, "b"), PyFile(SRC_DIR, "a_original"))
    /\ {PyFile(SRC_DIR, "b"), PyFile(SRC_DIR, "a_original")}
           \subseteq Range(dependencies)

\* C6: two calls of detect_dependencies on the same artifact return the
\* same set, and while the resolver runs no file is changed.
C6_Idempotent ==
    /\ [](\A i, j \in 1..Len(history) : history[i] = history[j])
    /\ [][apc = "detect" =>
              fs' = fs /\ TOOLS' = TOOLS /\ results' = results]_vars

C6_Witness ==
    /\ Len(history) = 2
    /\ history[1] # {}
    /\ history[1] = history[2]

\* C7: the set returned for an artifact never contains the artifact itself.
C7_NeverContainsItself ==
    \A i \in 1..Len(history) : TEST_FILE \notin history[i]

\* C8 as claimed: no file named like a standard-library or third-party
\* module is ever in the set returned.
C8_NoStandardModule ==
    \A i \in 1..Len(history) :
        \A f \in history[i] : StemOf(f) \notin STANDARD_MODULES

\* C8 as amended: no file named like a module of the resolver's exclusion
\* list is ever in the set returned, even when such a file sits next to the
\* artifact and is imported.
C8_NoExcludedModule ==
    \A i \in 1..Len(history) :
        \A f \in history[i] : StemOf(f) \notin EXCLUDED_MODULES

C8_Witness ==
    /\ Len(history) >= 1
    /\ history[1] # {}
    /\ PyFile(SRC_DIR, "os") \in DOMAIN fs
    /\ "os" \in PotentialModules(fs[TEST_FILE])

\* C9: the identity tool returns a path, and the file at that path holds
\* the content of the input artifact when the call returns.
C9_IdentityCopy ==
    apc = "idle" /\ calls > 0 =>
        /\ output.kind = "value"
        /\ output.value \in DOMAIN fs
        /\ fs[output.value] = fs[TEST_FILE]

\* C10: a tool named in the disable-list stays switched off once the list
\* has been applied, and no test artifact ever has a result under its name.
C10_DisabledToolHasNoEntry ==
    \A t \in disable_tools :
        /\ \A p \in DOMAIN results : t \notin DOMAIN results[p]
        /\ (pc # "check_files" /\ \A i \in 1..Len(test_files) : test_files[i].isfile)
               => ~TOOLS[t].enabled

C10_Witness ==
    /\ pc = "done"
    /\ exit_status = "0"
    /\ written
    /\ "pyminifier" \in disable_tools
    /\ \E p \in DOMAIN results :
          {"original", "pyobfuscate", "cython"} \subseteq DOMAIN results[p]

\* C11: when the command of a template-driven tool exits non-zero for the
\* artifact, apply_obfuscation returns None (no exception leaves it), no
\* result is stored for the artifact and the tool, and the loop of
\* run_benchmark moves on past the tool.
ToolIndex(t) == CHOOSE i \in 1..Len(TOOL_ORDER) : TOOL_ORDER[i] = t

C11_NonZeroCommandSkipsTool ==
    "main_nonzero" \in events /\ tool_name \notin {"original", "cython"} =>
        /\ apc \in {"returned", "idle"}
        /\ output = ReturnedNone
        /\ tool_name \notin DOMAIN results[test_files[file_idx].path]
        /\ pc = "trials"
        /\ apc = "idle" => tool_idx > ToolIndex(tool_name)

C11_Witness ==
    /\ apc = "idle"
    /\ "main_nonzero" \in events
    /\ tool_name = "pyminifier"
    /\ tool_idx = ToolIndex("pyminifier") + 1
    /\ "original" \in DOMAIN results[test_files[file_idx].path]
    /\ TOOLS["pyobfuscate"].enabled

\* C12: after every iteration of measure_performance, completed or raised,
\* the working directory is the one the iteration saved before it switched
\* to the temporary workspace, and after measure_performance has returned it
\* is the working directory of the entry.
C12_WorkingDirectoryRestored ==
    /\ mpc = "loop" /\ iter > 0 => cwd = current_dir
    /\ mpc = "done" => cwd = "orig"

\* C13: an iteration in which an exception is raised contributes no sample
\* to any metric, so no metric holds more samples than there are iterations
\* that did not raise, and when measure_performance returns exactly
\* self.iterations iterations have been attempted.
C13_RaisedIterationContributesNothing ==
    obfuscated_file = "present" =>
        /\ mpc \in {"loop", "done"} =>
              \A m \in METRICS : Len(metrics[m]) <= iter - raised
        /\ mpc = "done" => iter = iterations

C15_AllRaisedIsAllZero ==
    mpc = "done" /\ obfuscated_file = "present" /\ raised = iterations =>
        /\ mresult.kind = "value"
        /\ \A m \in METRICS :
              /\ RatEq(mresult.value[m].mean, Zero)
              /\ RatEq(mresult.value[m].median, Zero)
              /\ RatEq(mresult.value[m].min, Zero)
              /\ RatEq(mresult.value[m].max, Zero)
              /\ RatEq(mresult.value[m].stdev, Zero)

\* C16: measure_performance called with a null path or a path that does not
\* exist returns None at once: no child is launched, no resource is staged,
\* the working directory does not change and no sample is recorded.
C16_RejectsMissingArtifact ==
    obfuscated_file \in {None, "missing"} =>
        /\ proc = "none"
        /\ returncode = "None"
        /\ staged = {}
        /\ cwd = "orig"
        /\ iter = 0
        /\ \A m \in METRICS : metrics[m] = <<>>
        /\ mpc \in {"entry", "done"}
        /\ mpc = "done" => mresult = ReturnedNone

C16_Witness ==
    /\ mpc = "done"
    /\ obfuscated_file = "missing"
    /\ resources # {}
    /\ iterations > 0
    /\ mresult = ReturnedNone

\* C17: every temporary workspace that is created has been deleted (once:
\* nothing follows the deletion) when the run has ended, whether the run
\* succeeded or failed midway.
C17_WorkspaceDeleted ==
    /\ pc = "done" /\ temp_dir # "none" => temp_dir = "deleted"
    /\ temp_dir = "deleted" => pc = "done"

\* C17 as amended: the removal of every workspace that is created is
\* attempted exactly once, at the end of the run, whether the run succeeded
\* or failed midway; the workspace is deleted unless the removal itself
\* fails.
C17_WorkspaceRemovalAttemptedOnce ==
    /\ [](pc = "done" /\ temp_dir # "none" =>
              temp_dir \in {"deleted", "undeletable"})
    /\ [](temp_dir \in {"deleted", "undeletable"} => pc = "done")
    /\ [][(temp_dir \in {"deleted", "undeletable"}) => temp_dir' = temp_dir]_vars

C17_Witness ==
    /\ pc = "done"
    /\ temp_dir = "deleted"
    /\ faults > 0
    /\ results # <<>>

\* C18: when a named test file does not exist main exits with a non-zero
\* status before a tool is disabled, probed, installed or run and before a
\* workspace or an output is created; otherwise main runs to its end and
\* exits with status zero, also when trials have failed.
C18_ExitStatus ==
    pc = "done" =>
        IF \E i \in 1..Len(test_files) : ~test_files[i].isfile
        THEN /\ exit_status = "1"
             /\ TOOLS = INITIAL_TOOLS
             /\ temp_dir = "none"
             /\ results = <<>>
             /\ ~written
        ELSE exit_status = "0"

\* C19: for every tool, a failure while a dependency of the artifact is
\* processed (its copy, its command or its post-processing) does not change
\* the outcome of the trial: when nothing else has failed, the path of the
\* artifact's output is returned and its result is stored.
DependencyFailures ==
    {"dep_copy_raised", "dep_nonzero", "dep_raised", "dep_no_output",
     "dep_move_raised", "dep_repair_failed"}

C19_DependencyFailureIsHarmless ==
    apc = "idle" /\ events # {} /\ events \subseteq DependencyFailures =>
        /\ output.kind = "value"
        /\ tool_name \in DOMAIN results[test_files[file_idx].path]

\* C20: when the repair pass on the output of the artifact fails, the trial
\* has failed: apply_obfuscation returns None and no result is stored for
\* the artifact and the tool.
C20_RepairFailureFailsTrial ==
    apc \in {"returned", "idle"} /\ "main_repair_failed" \in events =>
        /\ output = ReturnedNone
        /\ tool_name \notin DOMAIN results[test_files[file_idx].path]

\* check_environment has returned: the constructor has created its
\* workspace (line 126) and no probe is left to run
Probed ==
    /\ temp_dir # "none"
    /\ pc \notin {"env_pyinstaller", "env_pyarmor7", "env_opy",
                  "env_pyarmor_gen", "env_pyminifier", "env_pyobfuscate"}

\* C21: a tool whose probe in check_environment failed (the tool is not
\* installed, or its version or help call raised) is switched off for the
\* rest of the run, and check_environment returns to its caller.
C21_FailedProbeDisablesTool ==
    Probed => \A t \in probe_failed : ~TOOLS[t].enabled

\* major.minor order of interpreter versions
VersionAtLeast(v, w) == v[1] > w[1] \/ (v[1] = w[1] /\ v[2] >= w[2])

\* line 247: the first interpreter PyArmor 7 does not support
PYARMOR7_THRESHOLD == <<3, 11>>

\* C22: once check_environment has run, pyarmor7 is switched off under
\* every interpreter at or above 3.11 in major.minor order, a major number
\* above 3 included.
C22_Pyarmor7OffFromThreshold ==
    (Probed /\ VersionAtLeast(python_version, PYARMOR7_THRESHOLD))
    => ~TOOLS["pyarmor7"].enabled

\* line 829: the loop of run_benchmark has started its first test file
MeasurementBegun == results # <<>>

\* C23: over one run the value of a tool's enabled flag changes at most
\* once (a flag that changes still has the value of the registry literal),
\* and once the trials of run_benchmark have begun no enabled flag, command
\* template or output template changes again.
C23_RegistrySettledBeforeTrials ==
    [][/\ \A t \in ToolNames :
             TOOLS'[t].enabled # TOOLS[t].enabled
                 => TOOLS[t].enabled = INITIAL_TOOLS[t].enabled
       /\ MeasurementBegun => TOOLS' = TOOLS]_vars

\* a trial has run after the flag of one tool and the command of another
\* were rewritten
C23_Witness ==
    /\ MeasurementBegun
    /\ pc = "trials"
    /\ tool_idx > 1
    /\ \E t \in ToolNames : TOOLS[t].enabled # INITIAL_TOOLS[t].enabled
    /\ \E t \in ToolNames : TOOLS[t].command # INITIAL_TOOLS[t].command

\* C27: no step of main, check_environment, install_tools or run_benchmark
\* turns a flag that is off back on, whatever the order of the calls.
C27_EnabledOnlyFalls ==
    [][\A t \in ToolNames : TOOLS'[t].enabled => TOOLS[t].enabled]_vars

\* check_environment is called again after its probe of pyarmor_gen has
\* switched the tool off
C27_Witness ==
    /\ pc = "env_pyarmor_gen"
    /\ "pyarmor_gen" \in probe_failed
    /\ ~TOOLS["pyarmor_gen"].enabled

\* lines 811-817, 819: the fields of a metric summary
SUMMARY_FIELDS == {"mean", "median", "min", "max", "stdev"}

\* only the identity tool is enabled
OnlyIdentity ==
    \A t \in ToolNames : TOOLS[t].enabled <=> t = "original"

\* C24: the results document is written when every trial has finished;
\* every tool entry in it holds the four metrics, each with the five
\* summary fields; with one artifact and only the identity tool enabled
\* (and neither the copy of the artifact nor the measurement failing) it
\* has exactly one tool entry, "original".
C24_ResultsDocument ==
    written =>
        /\ pc \notin {"trials", "save"}
        /\ \A p \in DOMAIN results : \A t \in DOMAIN results[p] :
              /\ DOMAIN results[p][t] = METRICS
              /\ \A m \in METRICS : DOMAIN results[p][t][m] = SUMMARY_FIELDS
        /\ (/\ OnlyIdentity
            /\ Len(test_files) = 1
            /\ events \cap {"main_copy_raised", "measure_none",
                             "measure_raised"} = {})
           => DOMAIN results[test_files[1].path] = {"original"}

\* C25: an iteration that completes (the child was launched and ran to its
\* end, and the iteration did not end in the handler of line 804) pushes
\* one sample to each of the four metrics: while no iteration has ended in
\* the handler, every metric has as many samples as iterations were run.
C25_CompletedIterationPushesAll ==
    (mpc = "loop" /\ raised = 0)
        => \A m \in METRICS : Len(metrics[m]) = iter

\* C28: at every point of the loop, after iter iterations have been
\* started, a metric measured later has no more samples than one measured
\* earlier: code_size <= execution_time <= startup_time <= iter and
\* memory_usage <= startup_time.
C28_SampleCountsOrdered ==
    /\ Len(metrics["code_size"]) <= Len(metrics["execution_time"])
    /\ Len(metrics["execution_time"]) <= Len(metrics["startup_time"])
    /\ Len(metrics["startup_time"]) <= iter
    /\ Len(metrics["memory_usage"]) <= Len(metrics["startup_time"])

\* iterations that stopped at different points: every inequality is strict
C28_Witness ==
    /\ mpc = "loop"
    /\ Len(metrics["code_size"]) < Len(metrics["execution_time"])
    /\ Len(metrics["execution_time"]) < Len(metrics["startup_time"])
    /\ Len(metrics["memory_usage"]) < Len(metrics["startup_time"])
    /\ Len(metrics["startup_time"]) = iter

\* the child can go on: it can exit, or the parent reads its pipe
ChildCanProceed == ENABLED (ChildExit \/ CommunicateRead)

\* C26: the polling loop never waits for the exit of a child that cannot
\* go on: a child blocked writing to a full pipe is read by the parent, so
\* that it can end and the iteration can finish.
C26_PollingLoopCannotStarveChild ==
    (mpc = "poll" /\ proc # "exited") => ChildCanProceed

\* the files a call has scanned: the artifact and the dependencies found
Scanned(deps) == {TEST_FILE} \cup deps

\* the modules the import statements of a file name: the X of "import X"
\* and of "from X import Y"
NamedModules(f) == {st.mod : st \in fs[f].stmts}

\* C29: a sibling file is in the dependency set of a call only if its stem
\* is the module named by an import statement of a scanned file; the name
\* imported from a module (the Y of "from X import Y") does not make the
\* sibling of that name a dependency.
C29_OnlyNamedModulesAreDependencies ==
    \A i \in 1..Len(history) :
        \A d \in history[i] :
            \E f \in Scanned(history[i]) : StemOf(d) \in NamedModules(f)

\* C30: while the identity tool copies the dependencies, no copy goes to
\* the path of the copy of the artifact, the path the call returns.
C30_DependencyCopySparesOutput ==
    (tool_name = "original" /\ apc = "copy_deps") =>
        \A i \in 1..Len(to_copy) :
            DepOutputPath(to_copy[i]) # OriginalOutputPath(TEST_FILE)

====
